---- MODULE Spec2Model ----
(***************************************************************************)
(* Model of curry.py: the curry() decorator, the specialisation of a       *)
(* callable into a root curried function, and the calls made on curried    *)
(* functions (_curry_wrapper / _curried_fun, _first_free_arg,              *)
(* _set_argument).                                                         *)
(*                                                                         *)
(* A python dict is a function whose DOMAIN is its key set.  The dicts     *)
(* live in a heap (a sequence of cells) and every curried function holds   *)
(* the index of the cell its closure captured as use_args, so that         *)
(* dict.copy(use_args) and the in-place stores of _set_argument are what   *)
(* the code makes them.                                                    *)
(***************************************************************************)
EXTENDS Integers, Sequences, FiniteSets, TLC

\* ---------------------------------------------------------------- bounds
MaxParams == 3      \* most parameters a wrapped callable declares
MaxNodes  == 3      \* most curried functions alive in one run
MaxPos    == 2      \* most positional values in one call
MaxKw     == 1      \* most keyword values in one call
MaxKwOnly == 1      \* most keyword-only parameters a wrapped callable declares
MaxKwMany    == 2   \* most keyword values in one call, where calls carry many
MaxNodesMany == 2   \* most curried functions alive where calls carry many

\* ------------------------------------------------------------ vocabulary
ParamNames == <<"a", "b", "c", "d">>
KwOnlyNames == <<"k", "l">>        \* the parameters declared after a bare *
SelfName   == "self"
UnknownKw  == "zz"                 \* a keyword no wrapped callable declares
Receiver   == 0                    \* the object a bound method is bound to
EmptyDict  == [x \in {} |-> 0]

Min(x, y) == IF x <= y THEN x ELSE y

\* len(d) of a dict
DictLen(d) == Cardinality(DOMAIN d)

\* d[k] = v on a dict
DictSetFresh(d, k, v) == [x \in {k} |-> v]

DictSet(d, k, v) == [x \in (DOMAIN d) \cup {k} |-> IF x = k THEN v ELSE d[x]]

\* the value the i-th default of a callable carries
DefaultVal(i) == 100 + i

\* the value the default of the i-th keyword-only parameter carries
KwOnlyDefaultVal(i) == 200 + i

\* The values callers pass.  The code never looks at a value, so each value
\* passed is a label of its own: item j of the call made when c curried
\* funs are alive.
Label(c, j) == 10 * c + j

\* argspec.args of a callable with n positional parameters (a bound method
\* that declares any lists its receiver first)
ArgNames(n, ismethod) ==
    IF ismethod /\ n >= 1
    THEN <<SelfName>> \o SubSeq(ParamNames, 1, n - 1)
    ELSE SubSeq(ParamNames, 1, n)

\* The callables that are wrapped: the functions and bound methods without
\* *args and **kwargs that declare at most MaxParams parameters.  args,
\* defaults, kwonlyargs and kwonlydefaults are the fields of
\* inspect.getfullargspec(fun): args lists the n >= 0 positional parameters
\* (positional-only ones included), of which the last k carry defaults (the
\* receiver of a bound method may carry one); argspec.defaults is None
\* exactly when k = 0, which is the empty sequence here; kwonlyargs lists
\* the parameters declared after a bare *, and kwonlydefaults maps those
\* that carry a default to it (None is the empty dict here).
\* posonlyargcount is the number of leading parameters declared before a /,
\* which python consults when the callable is called.
KwOnlyDefaults(names) ==
    [x \in names |-> KwOnlyDefaultVal(CHOOSE i \in DOMAIN KwOnlyNames :
                                        KwOnlyNames[i] = x)]

Funs ==
    { [args |-> ArgNames(t[1], t[3]),
       defaults |-> [i \in 1 .. t[2] |-> DefaultVal(i)],
       ismethod |-> t[3],
       posonlyargcount |-> t[4],
       kwonlyargs |-> SubSeq(KwOnlyNames, 1, t[5]),
       kwonlydefaults |-> KwOnlyDefaults(t[6])] :
        t \in { u \in (0 .. MaxParams) \X (0 .. MaxParams) \X BOOLEAN
                      \X (0 .. MaxParams) \X (0 .. MaxKwOnly)
                      \X (SUBSET { KwOnlyNames[i] : i \in 1 .. MaxKwOnly }) :
                   /\ u[2] <= u[1]
                   /\ u[4] <= u[1]
                   /\ u[1] + u[5] <= MaxParams
                   /\ u[6] \subseteq { KwOnlyNames[i] : i \in 1 .. u[5] } } }

\* the keyword names a caller may use on a curried fun: the parameters of
\* the callable and a name it does not declare
KwNamesOf(f) ==
    { f.args[i] : i \in DOMAIN f.args }
        \cup { f.kwonlyargs[i] : i \in DOMAIN f.kwonlyargs } \cup {UnknownKw}

\* the positional tuple (*args) of a call with np positional values
PosArgs(c, np) == [j \in 1 .. np |-> Label(c, j)]

\* the keyword names of one call, in call-site order: distinct names
KwNameSeqs(f) ==
    { s \in UNION { [1 .. l -> KwNamesOf(f)] : l \in 0 .. MaxKw } :
        \A i, j \in DOMAIN s : i # j => s[i] # s[j] }

\* the same where one call carries up to MaxKwMany keywords
KwNameSeqsMany(f) ==
    { s \in UNION { [1 .. l -> KwNamesOf(f)] : l \in 0 .. MaxKwMany } :
        \A i, j \in DOMAIN s : i # j => s[i] # s[j] }

\* the keyword dict (**kwargs) of a call, as the sequence of its
\* <<name, value>> items in call-site order
KwArgs(c, np, names) == [i \in DOMAIN names |-> <<names[i], Label(c, np + i)>>]

\* ------------------------------------------------------------ python bits
\* reversed(s)
Reversed(s) == [i \in 1 .. Len(s) |-> s[Len(s) + 1 - i]]

\* zip(s, t)
Zip(s, t) == [i \in 1 .. Min(Len(s), Len(t)) |-> <<s[i], t[i]>>]

\* dict(pairs): the last pair of a key wins
DictOf(pairs) ==
    [x \in { pairs[i][1] : i \in DOMAIN pairs } |->
        pairs[CHOOSE i \in DOMAIN pairs :
                /\ pairs[i][1] = x
                /\ \A j \in DOMAIN pairs : j > i => pairs[j][1] # x][2]]

\* What a call returns or raises, and what it did on the way.
NoOutcome ==
    [kind |-> "none", err |-> "", param |-> "", node |-> 0, value |-> <<>>,
     invoked |-> FALSE, callargs |-> EmptyDict, current |-> EmptyDict]

\* the positional parameters without a default that the caller has to give
Required(f) ==
    { f.args[i] : i \in { j \in DOMAIN f.args :
                            /\ j <= Len(f.args) - Len(f.defaults)
                            /\ ~(f.ismethod /\ j = 1) } }

\* the keyword-only parameters without a default
RequiredKwOnly(f) ==
    { f.kwonlyargs[i] : i \in DOMAIN f.kwonlyargs } \ DOMAIN f.kwonlydefaults

\* the parameters declared before a /
PosOnly(f) == { f.args[i] : i \in 1 .. f.posonlyargcount }

ParamValue(f, kw, i) ==
    IF f.ismethod /\ i = 1 THEN Receiver
    ELSE IF f.args[i] \in DOMAIN kw THEN kw[f.args[i]]
    ELSE f.defaults[i - (Len(f.args) - Len(f.defaults))]

KwOnlyValue(f, kw, i) ==
    IF f.kwonlyargs[i] \in DOMAIN kw THEN kw[f.kwonlyargs[i]]
    ELSE f.kwonlydefaults[f.kwonlyargs[i]]

\* the first name of the sequence names that is in the set S
FirstIn(names, S) ==
    names[CHOOSE i \in DOMAIN names :
            /\ names[i] \in S
            /\ \A j \in DOMAIN names : j < i => names[j] \notin S]

FirstMissing(f, kw) == FirstIn(f.args, Required(f) \ DOMAIN kw)

\* The end of every call of the wrapped callable, once its parameters are
\* bound as kw says: a positional parameter without a default that is not
\* bound is missing; then a keyword-only parameter without a default is
\* missing; otherwise the body returns the tuple of its parameters, as the
\* functions of the test suite do.
RunBody(f, kw) ==
    IF Required(f) \ DOMAIN kw # {}
    THEN [NoOutcome EXCEPT !.kind = "error", !.err = "MissingArgument",
                           !.param = FirstMissing(f, kw), !.invoked = TRUE,
                           !.callargs = kw, !.current = kw]
    ELSE IF RequiredKwOnly(f) \ DOMAIN kw # {}
    THEN [NoOutcome EXCEPT !.kind = "error", !.err = "MissingKeywordOnly",
                           !.param = FirstIn(f.kwonlyargs,
                                             RequiredKwOnly(f) \ DOMAIN kw),
                           !.invoked = TRUE, !.callargs = kw, !.current = kw]
    ELSE [NoOutcome EXCEPT !.kind = "result",
                           !.value = [i \in DOMAIN f.args |-> ParamValue(f, kw, i)]
                                     \o [i \in DOMAIN f.kwonlyargs |->
                                            KwOnlyValue(f, kw, i)],
                           !.invoked = TRUE, !.callargs = kw, !.current = kw]

\* The wrapped callable, fun(**kw), where the keys of kw are names of
\* argspec.args (_set_argument and the seeding store no other key): python
\* refuses a keyword that names a parameter declared before a /; the
\* receiver of a bound method is already bound, so a keyword naming it
\* collides, and a method that declares no positional parameter has no
\* place for it; then the call ends as every call does.
Invoke(f, kw) ==
    IF PosOnly(f) \cap DOMAIN kw # {}
    THEN [NoOutcome EXCEPT !.kind = "error", !.err = "PositionalOnlyAsKeyword",
                           !.param = FirstIn(f.args, PosOnly(f) \cap DOMAIN kw),
                           !.invoked = TRUE, !.callargs = kw, !.current = kw]
    ELSE IF f.ismethod /\ Len(f.args) >= 1 /\ f.args[1] \in DOMAIN kw
    THEN [NoOutcome EXCEPT !.kind = "error", !.err = "MultipleValues",
                           !.param = f.args[1], !.invoked = TRUE,
                           !.callargs = kw, !.current = kw]
    ELSE IF f.ismethod /\ Len(f.args) = 0
    THEN [NoOutcome EXCEPT !.kind = "error", !.err = "TooManyPositional",
                           !.invoked = TRUE, !.callargs = kw, !.current = kw]
    ELSE RunBody(f, kw)

\* The direct call fun(v1, ..., vm) that a curried chain is compared with:
\* python binds the values to the parameters in declaration order (after
\* the receiver of a bound method).
FlatCall(f, vals) ==
    LET off == IF f.ismethod THEN 1 ELSE 0 IN
    IF Len(vals) > Len(f.args) - off
    THEN [NoOutcome EXCEPT !.kind = "error", !.err = "TooManyPositional",
                           !.invoked = TRUE]
    ELSE LET kw == [x \in { f.args[i + off] : i \in 1 .. Len(vals) } |->
                      vals[(CHOOSE i \in 1 .. Len(vals) : f.args[i + off] = x)]]
         IN  [RunBody(f, kw) EXCEPT !.callargs = EmptyDict, !.current = EmptyDict]

\* ------------------------------------------------------------- internals
\* initial_args of _specialized_curry when use_defaults is set
SeedDefaultsUnreversed(f) == DictOf(Zip(f.args, f.defaults))

SeedDefaults(f) == DictOf(Zip(Reversed(f.args), Reversed(f.defaults)))

\* _set_argument: the error it raises, or the dict after the store
SetArgumentUngated(f, current_args, allow, new_arg, new_val) ==
    IF new_arg \notin { f.args[i] : i \in DOMAIN f.args }
    THEN [err |-> "UnknownParameter", param |-> new_arg, dict |-> current_args]
    ELSE [err |-> "", param |-> "", dict |-> DictSet(current_args, new_arg, new_val)]

SetArgumentKeepFirst(f, current_args, allow, new_arg, new_val) ==
    IF new_arg \notin { f.args[i] : i \in DOMAIN f.args }
    THEN [err |-> "UnknownParameter", param |-> new_arg, dict |-> current_args]
    ELSE IF new_arg \in DOMAIN current_args /\ ~allow
    THEN [err |-> "OverrideNotAllowed", param |-> new_arg, dict |-> current_args]
    ELSE IF new_arg \in DOMAIN current_args
    THEN [err |-> "", param |-> "", dict |-> current_args]
    ELSE [err |-> "", param |-> "", dict |-> DictSet(current_args, new_arg, new_val)]

SetArgumentUnchecked(f, current_args, allow, new_arg, new_val) ==
    IF new_arg \in DOMAIN current_args /\ ~allow
    THEN [err |-> "OverrideNotAllowed", param |-> new_arg, dict |-> current_args]
    ELSE [err |-> "", param |-> "", dict |-> DictSet(current_args, new_arg, new_val)]

SetArgument(f, current_args, allow, new_arg, new_val) ==
    IF new_arg \notin { f.args[i] : i \in DOMAIN f.args }
    THEN [err |-> "UnknownParameter", param |-> new_arg, dict |-> current_args]
    ELSE IF new_arg \in DOMAIN current_args /\ ~allow
    THEN [err |-> "OverrideNotAllowed", param |-> new_arg, dict |-> current_args]
    ELSE [err |-> "", param |-> "", dict |-> DictSet(current_args, new_arg, new_val)]

\* _first_free_arg: the first parameter that current_args lacks, skipping
\* the bound object of a method
ValidArgsAll(f) == f.args

ValidArgs(f) == IF f.ismethod THEN SubSeq(f.args, 2, Len(f.args)) ELSE f.args

FirstFreeArgLast(f, current_args) ==
    LET valid_args == ValidArgs(f)
        free == { i \in DOMAIN valid_args : valid_args[i] \notin DOMAIN current_args }
    IN  IF free = {}
        THEN [err |-> "ArityExceeded", arg |-> ""]
        ELSE [err |-> "",
              arg |-> valid_args[CHOOSE i \in free : \A j \in free : i >= j]]

FirstFreeArgWrapping(f, current_args) ==
    LET valid_args == ValidArgs(f)
        free == { i \in DOMAIN valid_args : valid_args[i] \notin DOMAIN current_args }
    IN  IF valid_args = <<>>
        THEN [err |-> "ArityExceeded", arg |-> ""]
        ELSE IF free = {}
        THEN [err |-> "", arg |-> valid_args[1]]
        ELSE [err |-> "",
              arg |-> valid_args[CHOOSE i \in free : \A j \in free : i <= j]]

FirstFreeArg(f, current_args) ==
    LET valid_args == ValidArgs(f)
        free == { i \in DOMAIN valid_args : valid_args[i] \notin DOMAIN current_args }
    IN  IF free = {}
        THEN [err |-> "ArityExceeded", arg |-> ""]
        ELSE [err |-> "",
              arg |-> valid_args[CHOOSE i \in free : \A j \in free : i <= j]]

\* for val in args: _set_argument(..., _first_free_arg(...), val)
PosLoopStale(f, current_args, allow, args, i) ==
    LET ff == FirstFreeArg(f, current_args)
        RECURSIVE Store(_, _)
        Store(d, j) ==
            IF j > Len(args)
            THEN [err |-> "", param |-> "", dict |-> d]
            ELSE LET s == SetArgument(f, d, allow, ff.arg, args[j]) IN
                 IF s.err # "" THEN s ELSE Store(s.dict, j + 1)
    IN  IF i > Len(args)
        THEN [err |-> "", param |-> "", dict |-> current_args]
        ELSE IF ff.err # ""
        THEN [err |-> ff.err, param |-> "", dict |-> current_args]
        ELSE Store(current_args, i)

RECURSIVE PosLoop(_, _, _, _, _)
PosLoop(f, current_args, allow, args, i) ==
    IF i > Len(args)
    THEN [err |-> "", param |-> "", dict |-> current_args]
    ELSE LET ff == FirstFreeArg(f, current_args) IN
         IF ff.err # ""
         THEN [err |-> ff.err, param |-> "", dict |-> current_args]
         ELSE LET s == SetArgument(f, current_args, allow, ff.arg, args[i]) IN
              IF s.err # "" THEN s
              ELSE PosLoop(f, s.dict, allow, args, i + 1)

\* for arg in kwargs: _set_argument(..., arg, kwargs[arg])
RECURSIVE KwLoop(_, _, _, _, _)
KwLoop(f, current_args, allow, kwargs, i) ==
    IF i > Len(kwargs)
    THEN [err |-> "", param |-> "", dict |-> current_args]
    ELSE LET s == SetArgument(f, current_args, allow, kwargs[i][1], kwargs[i][2]) IN
         IF s.err # "" THEN s
         ELSE KwLoop(f, s.dict, allow, kwargs, i + 1)

\* both loops of _curried_fun on one dict: the positional values first
ResolveKwFirst(f, current_args, allow, args, kwargs) ==
    LET q == KwLoop(f, current_args, allow, kwargs, 1) IN
    IF q.err # "" THEN q ELSE PosLoop(f, q.dict, allow, args, 1)

Resolve(f, current_args, allow, args, kwargs) ==
    LET p == PosLoop(f, current_args, allow, args, 1) IN
    IF p.err # "" THEN p ELSE KwLoop(f, p.dict, allow, kwargs, 1)

\* not lazy and (len(current_args) == len(argspec.args))
CompleteIgnoringLazy(f, is_lazy, current_args) ==
    DictLen(current_args) = Len(f.args)

CompleteSkippingReceiver(f, is_lazy, current_args) ==
    ~is_lazy /\ DictLen(current_args) = Len(ValidArgs(f))

Complete(f, is_lazy, current_args) ==
    ~is_lazy /\ DictLen(current_args) = Len(f.args)

\* dict.copy(use_args): a new heap cell with the same items
DictCopyAliased(h, id) == [heap |-> h, id |-> id]

DictCopy(h, id) == [heap |-> Append(h, h[id]), id |-> Len(h) + 1]

\* 0 == len(args) and 0 == len(kwargs)
IsEmptyCallMistyped(args, kwargs) == Len(args) = 0 /\ Len(kwargs) # 0

IsEmptyCall(args, kwargs) == Len(args) = 0 /\ Len(kwargs) = 0

\* _curried_fun(*args, **kwargs) of the curried fun whose use_args is the
\* heap cell id: the outcome of the call and the heap it leaves
CurriedFun(f, is_lazy, allow, h, id, args, kwargs) ==
    LET cp == DictCopy(h, id) IN
    IF IsEmptyCall(args, kwargs)
    THEN [heap |-> cp.heap, cell |-> cp.id, out |-> Invoke(f, cp.heap[cp.id])]
    ELSE LET r  == Resolve(f, cp.heap[cp.id], allow, args, kwargs)
             h2 == [cp.heap EXCEPT ![cp.id] = r.dict]
         IN  IF r.err # ""
             THEN [heap |-> h2, cell |-> cp.id,
                   out |-> [NoOutcome EXCEPT !.kind = "error", !.err = r.err,
                                             !.param = r.param, !.current = r.dict]]
             ELSE IF Complete(f, is_lazy, r.dict)
             THEN [heap |-> h2, cell |-> cp.id, out |-> Invoke(f, r.dict)]
             ELSE [heap |-> h2, cell |-> cp.id,
                   out |-> [NoOutcome EXCEPT !.kind = "node", !.current = r.dict]]

\* ------------------------------------------------------------------ state
VARIABLES
    pc,              \* "wrap": curry(...) returned, "ready": fun is wrapped,
                     \* "called": a call has just returned or raised,
                     \* "failed": _specialized_curry raised
    fun,             \* the callable given to _specialized_curry
    lazy, allow_override, use_defaults,   \* the flags curry() closed over
    heap,            \* the dicts alive
    nodes,           \* the curried funs alive: the heap cell of their use_args
    hist,            \* per curried fun: how it was made
    last             \* the call that has just ended and its outcome

vars == <<pc, fun, lazy, allow_override, use_defaults, heap, nodes, hist, last>>

NoCall == [node |-> 0, args |-> <<>>, kwargs |-> <<>>, before |-> EmptyDict,
           out |-> NoOutcome]

Init ==
    /\ pc = "wrap"
    /\ fun \in Funs
    /\ lazy \in BOOLEAN
    /\ allow_override \in BOOLEAN
    /\ use_defaults \in BOOLEAN
    /\ heap = <<>>
    /\ nodes = <<>>
    /\ hist = <<>>
    /\ last = NoCall

\* _specialized_curry(fun): reversed(argspec.defaults) raises when the
\* callable has no defaults (argspec.defaults is None)
Specialize ==
    /\ pc = "wrap"
    /\ IF use_defaults /\ Len(fun.defaults) = 0
       THEN /\ pc' = "failed"
            /\ last' = [NoCall EXCEPT !.out =
                          [NoOutcome EXCEPT !.kind = "error",
                                            !.err = "NoneNotReversible"]]
            /\ UNCHANGED <<heap, nodes, hist>>
       ELSE LET initial_args == IF use_defaults THEN SeedDefaults(fun)
                                ELSE EmptyDict
            IN  /\ pc' = "ready"
                /\ heap' = <<initial_args>>
                /\ nodes' = <<1>>
                /\ hist' = <<[parent |-> 0, args |-> <<>>, kwargs |-> <<>>,
                              created |-> initial_args, npos |-> 0,
                              posvals |-> <<>>, posonly |-> TRUE]>>
                /\ last' = NoCall
    /\ UNCHANGED <<fun, lazy, allow_override, use_defaults>>

\* one call k(*args, **kwargs) on the curried fun k; the dict of a call
\* that returns no curried fun is garbage once the call is over
Call(k, args, kwargs) ==
    /\ pc = "ready"
    /\ k \in DOMAIN nodes
    /\ LET c == CurriedFun(fun, lazy, allow_override, heap, nodes[k], args, kwargs)
       IN  IF c.out.kind = "node"
           THEN /\ Len(nodes) < MaxNodes
                /\ heap' = c.heap
                /\ nodes' = Append(nodes, c.cell)
                /\ hist' = Append(hist,
                      [parent |-> k, args |-> args, kwargs |-> kwargs,
                       created |-> c.heap[c.cell],
                       npos |-> hist[k].npos + Len(args),
                       posvals |-> hist[k].posvals \o args,
                       posonly |-> hist[k].posonly /\ Len(kwargs) = 0])
                /\ last' = [node |-> k, args |-> args, kwargs |-> kwargs,
                            before |-> heap[nodes[k]],
                            out |-> [c.out EXCEPT !.node = Len(nodes) + 1]]
           ELSE /\ heap' = SubSeq(c.heap, 1, Len(heap))
                /\ last' = [node |-> k, args |-> args, kwargs |-> kwargs,
                            before |-> heap[nodes[k]], out |-> c.out]
                /\ UNCHANGED <<nodes, hist>>
    /\ pc' = "called"
    /\ UNCHANGED <<fun, lazy, allow_override, use_defaults>>

\* the caller has the outcome of the call and goes on
Return ==
    /\ pc = "called"
    /\ pc' = "ready"
    /\ last' = NoCall
    /\ UNCHANGED <<fun, lazy, allow_override, use_defaults, heap, nodes, hist>>

Next ==
    \/ Specialize
    \/ \E k \in DOMAIN nodes, np \in 0 .. MaxPos, names \in KwNameSeqs(fun) :
          Call(k, PosArgs(Len(nodes), np), KwArgs(Len(nodes), np, names))
    \/ Return

Spec == Init /\ [][Next]_vars

\* The same program where one call carries up to MaxKwMany keywords, so
\* that the keyword loop meets a second keyword after the first; fewer
\* curried funs are kept alive.
CallMany(k, args, kwargs) ==
    /\ pc = "ready"
    /\ k \in DOMAIN nodes
    /\ \/ Len(nodes) < MaxNodesMany
       \/ CurriedFun(fun, lazy, allow_override, heap, nodes[k], args, kwargs).out.kind
             # "node"
    /\ Call(k, args, kwargs)

NextMany ==
    \/ Specialize
    \/ \E k \in DOMAIN nodes, np \in 0 .. MaxPos, names \in KwNameSeqsMany(fun) :
          CallMany(k, PosArgs(Len(nodes), np), KwArgs(Len(nodes), np, names))
    \/ Return

SpecMany == Init /\ [][NextMany]_vars

\* ------------------------------------------------- vocabulary of the claims
Called == pc = "called"

EmptyCalled == Called /\ Len(last.args) = 0 /\ Len(last.kwargs) = 0

NonEmptyCalled == Called /\ ~(Len(last.args) = 0 /\ Len(last.kwargs) = 0)

Succeeded == last.out.kind \in {"node", "result"}

Declared == { fun.args[i] : i \in DOMAIN fun.args }

\* the keyword names of the call that has just ended
LastKwNames == { last.kwargs[i][1] : i \in DOMAIN last.kwargs }

\* the free slots of a dict: the parameters a positional value may fill
\* (not the receiver of a bound method) that the dict lacks, in order
FreeSlots(d) ==
    LET off == IF fun.ismethod THEN 1 ELSE 0
        RECURSIVE Slots(_)
        Slots(i) == IF i > Len(fun.args) THEN <<>>
                    ELSE IF fun.args[i] \in DOMAIN d THEN Slots(i + 1)
                    ELSE <<fun.args[i]>> \o Slots(i + 1)
    IN  Slots(1 + off)

\* the slots the positional values of the call that has just ended fill
LastPosFilled ==
    LET fs == FreeSlots(last.before)
    IN  { fs[i] : i \in 1 .. Min(Len(last.args), Len(fs)) }

\* the callable is a bound method that declares its receiver
HasReceiver == fun.ismethod /\ Len(fun.args) >= 1

\* what the caller of a call sees of its outcome
Seen(out) == [kind |-> out.kind, err |-> out.err, param |-> out.param,
              value |-> out.value]

\* the outcome of a call on a curried fun whose bound arguments are d, with
\* no other curried fun around
Alone(d, args, kwargs) ==
    CurriedFun(fun, lazy, allow_override, <<d>>, 1, args, kwargs).out

\* --------------------------------------------------------------------- C1
\* C1: chunked application equivalence.  For a free function wrapped with
\* lazy = true and use_defaults = false, when the n values of a chain of
\* positional-only calls on the root have been supplied, whatever their
\* grouping, the empty call returns what the flat call f(v1, ..., vn)
\* returns: parameter i receives the i-th value supplied.
C1_ChunkedEquivalence ==
    (/\ EmptyCalled
     /\ lazy /\ ~use_defaults /\ ~fun.ismethod
     /\ hist[last.node].posonly
     /\ Len(hist[last.node].posvals) = Len(fun.args))
    => /\ Seen(last.out) = Seen(FlatCall(fun, hist[last.node].posvals))
       /\ last.out.kind = "result"
          => \A i \in DOMAIN fun.args :
                last.out.value[i] = hist[last.node].posvals[i]

\* the same for the free functions that declare no parameter before a /
C1_WithoutPositionalOnly ==
    (/\ EmptyCalled
     /\ lazy /\ ~use_defaults /\ ~fun.ismethod
     /\ fun.posonlyargcount = 0
     /\ hist[last.node].posonly
     /\ Len(hist[last.node].posvals) = Len(fun.args))
    => /\ Seen(last.out) = Seen(FlatCall(fun, hist[last.node].posvals))
       /\ last.out.kind = "result"
          => \A i \in DOMAIN fun.args :
                last.out.value[i] = hist[last.node].posvals[i]

\* a chain of two non-empty positional groups on the root has been forced
C1_Witness ==
    /\ EmptyCalled
    /\ lazy /\ ~use_defaults /\ ~fun.ismethod
    /\ hist[last.node].posonly
    /\ Len(hist[last.node].posvals) = Len(fun.args)
    /\ Len(fun.args) = MaxParams
    /\ hist[last.node].parent > 1
    /\ last.out.kind = "result"

\* --------------------------------------------------------------------- C2
\* C2: branch independence.  No call changes the bound arguments of a
\* curried fun: each one holds what it held when it was made, each one was
\* made from its parent exactly as if the parent had never been called
\* otherwise, and the outcome of every call is the outcome the same call has
\* on a curried fun that was never called before.
C2_BranchIndependence ==
    /\ \A k \in DOMAIN nodes :
          /\ heap[nodes[k]] = hist[k].created
          /\ hist[k].parent # 0 =>
                LET o == Alone(hist[hist[k].parent].created,
                               hist[k].args, hist[k].kwargs)
                IN  o.kind = "node" /\ o.current = hist[k].created
    /\ Called =>
          [last.out EXCEPT !.node = 0] =
              Alone(hist[last.node].created, last.args, last.kwargs)

\* two branches of one curried fun hold different bindings and one of them
\* is forced after the other was made
C2_Witness ==
    /\ EmptyCalled
    /\ Len(nodes) = 3
    /\ hist[2].parent = hist[3].parent
    /\ hist[2].created # hist[3].created
    /\ DOMAIN hist[2].created = DOMAIN hist[3].created
    /\ last.node = 2
    /\ last.out.kind = "result"

\* --------------------------------------------------------------------- C3
\* C3 as stated: with allow_override = false, a call with a keyword whose
\* parameter is already bound (before the call, or by a positional value of
\* the same call) fails with OverrideNotAllowed naming that parameter.
C3_AsStated ==
    (Called /\ ~allow_override)
    => \A i \in DOMAIN last.kwargs :
          last.kwargs[i][1] \in (DOMAIN last.before) \cup LastPosFilled
          => /\ last.out.kind = "error"
             /\ last.out.err = "OverrideNotAllowed"
             /\ last.out.param = last.kwargs[i][1]

\* the first keyword of the call that has just ended that is unknown or
\* names a parameter bound when the keywords are resolved (0 if none)
FirstBadKw ==
    LET bad == { i \in DOMAIN last.kwargs :
                   \/ last.kwargs[i][1] \notin Declared
                   \/ last.kwargs[i][1] \in (DOMAIN last.before) \cup LastPosFilled }
    IN  IF bad = {} THEN 0 ELSE CHOOSE i \in bad : \A j \in bad : i <= j

\* C3 amended: with allow_override = false, a call with a keyword whose
\* parameter is already bound always fails, without a new curried fun and
\* without invoking the callable.  The error is the one of the first value
\* that fails in resolution order: ArityExceeded when the call has more
\* positional values than free slots; otherwise the error of the first
\* keyword that is unknown (UnknownParameter) or already bound
\* (OverrideNotAllowed), naming that keyword.  So it is OverrideNotAllowed
\* naming the parameter whenever no value resolved before it fails.
C3_OverrideDenied ==
    (/\ Called /\ ~allow_override
     /\ \E i \in DOMAIN last.kwargs :
           last.kwargs[i][1] \in (DOMAIN last.before) \cup LastPosFilled)
    => /\ last.out.kind = "error"
       /\ ~last.out.invoked
       /\ IF Len(last.args) > Len(FreeSlots(last.before))
          THEN last.out.err = "ArityExceeded"
          ELSE /\ last.out.param = last.kwargs[FirstBadKw][1]
               /\ last.out.err =
                     (IF last.kwargs[FirstBadKw][1] \in Declared
                      THEN "OverrideNotAllowed" ELSE "UnknownParameter")

\* a call with two keywords that both name bound parameters is refused for
\* the earlier one, whose parameter a positional value of the same call has
\* just filled
C3_Witness ==
    /\ Called /\ ~allow_override
    /\ Len(last.kwargs) = 2
    /\ last.kwargs[2][1] \in DOMAIN last.before
    /\ last.kwargs[1][1] \in LastPosFilled
    /\ last.kwargs[1][1] \notin DOMAIN last.before
    /\ last.out.kind = "error"
    /\ last.out.err = "OverrideNotAllowed"
    /\ last.out.param = last.kwargs[1][1]

\* --------------------------------------------------------------------- C4
\* C4: with allow_override = true no call fails with OverrideNotAllowed; a
\* call that succeeds leaves every keyword's parameter bound to the
\* keyword's value, every other earlier binding as it was, and binds nothing
\* but the keywords' parameters and the slots its positional values fill;
\* the callable, when invoked, receives exactly these bindings.
C4_OverrideAllowed ==
    (Called /\ allow_override)
    => /\ last.out.err # "OverrideNotAllowed"
       /\ (NonEmptyCalled /\ Succeeded) =>
             /\ \A i \in DOMAIN last.kwargs :
                   /\ last.kwargs[i][1] \in DOMAIN last.out.current
                   /\ last.out.current[last.kwargs[i][1]] = last.kwargs[i][2]
             /\ \A q \in (DOMAIN last.before) \ LastKwNames :
                   /\ q \in DOMAIN last.out.current
                   /\ last.out.current[q] = last.before[q]
             /\ DOMAIN last.out.current =
                   (DOMAIN last.before) \cup LastKwNames \cup LastPosFilled
             /\ last.out.kind = "result" => last.out.callargs = last.out.current

\* a keyword has replaced the value of a parameter bound earlier
C4_Witness ==
    /\ NonEmptyCalled /\ allow_override /\ Succeeded
    /\ \E i \in DOMAIN last.kwargs :
          /\ last.kwargs[i][1] \in DOMAIN last.before
          /\ last.before[last.kwargs[i][1]] # last.kwargs[i][2]
          /\ last.out.current[last.kwargs[i][1]] = last.kwargs[i][2]

\* --------------------------------------------------------------------- C5
\* C5: arity overflow.  Whatever allow_override is and however the earlier
\* bindings were made, a call with more positional values than free slots
\* fails with ArityExceeded; a call that succeeds has replaced no binding by
\* a positional value, and the number of values bound positionally along a
\* chain never exceeds the parameter count.
C5_ArityOverflow ==
    /\ (Called /\ Len(last.args) > Len(FreeSlots(last.before)))
       => /\ last.out.kind = "error"
          /\ last.out.err = "ArityExceeded"
          /\ ~last.out.invoked
    /\ (NonEmptyCalled /\ Succeeded)
       => /\ \A q \in (DOMAIN last.before) \ LastKwNames :
                last.out.current[q] = last.before[q]
          /\ hist[last.node].npos + Len(last.args) <= Len(fun.args)
    /\ \A k \in DOMAIN nodes : hist[k].npos <= Len(fun.args)

\* with overriding allowed, a call on a derived curried fun that holds a
\* keyword binding overflows after its first positional value found a slot
C5_Witness ==
    /\ Called /\ allow_override
    /\ hist[last.node].parent # 0
    /\ ~hist[last.node].posonly
    /\ Len(FreeSlots(last.before)) >= 1
    /\ Len(last.args) > Len(FreeSlots(last.before))
    /\ last.out.err = "ArityExceeded"

\* --------------------------------------------------------------------- C6
\* C6: non-lazy completion.  With lazy = false a non-empty call that
\* succeeds returns the callable's result exactly when the parameters bound
\* before the call, those its positional values fill and those its keywords
\* name are as many as the declared parameters; otherwise it returns a new
\* curried fun and the callable is not invoked.
C6_NonLazyCompletion ==
    (NonEmptyCalled /\ ~lazy /\ Succeeded)
    => LET bound == (DOMAIN last.before) \cup LastPosFilled \cup LastKwNames IN
       /\ last.out.kind = "result" <=> Cardinality(bound) = Len(fun.args)
       /\ last.out.kind = "result" =>
             last.out.invoked /\ last.out.callargs = last.out.current
       /\ last.out.kind = "node" => ~last.out.invoked

\* a call on a derived curried fun binds the last parameter and returns the
\* result
C6_Witness ==
    /\ NonEmptyCalled /\ ~lazy
    /\ hist[last.node].parent # 0
    /\ last.out.kind = "result"
    /\ DictLen(last.before) < Len(fun.args)

\* --------------------------------------------------------------------- C7
\* C7: lazy forcing.  With lazy = true no non-empty call invokes the
\* callable; a non-empty call that succeeds returns a curried fun, also
\* when it leaves every parameter bound; only an empty call invokes the
\* callable.
C7_LazyForcing ==
    (Called /\ lazy)
    => /\ NonEmptyCalled => (~last.out.invoked /\ last.out.kind \in {"node", "error"})
       /\ last.out.invoked => EmptyCalled
       /\ last.out.kind = "result" => EmptyCalled

\* a non-empty call has bound the last free parameter and returned a
\* curried fun
C7_Witness ==
    /\ NonEmptyCalled /\ lazy
    /\ last.out.kind = "node"
    /\ DictLen(last.before) < Len(fun.args)
    /\ DictLen(last.out.current) = Len(fun.args)

\* --------------------------------------------------------------------- C8
\* the bound arguments C8 expects of the root: the last k parameters, the
\* i-th of them bound to the i-th default
ExpectedSeed ==
    LET n == Len(fun.args)
        k == Len(fun.defaults)
    IN  [x \in { fun.args[i] : i \in (n - k + 1) .. n } |->
            fun.defaults[(CHOOSE i \in 1 .. k : fun.args[n - k + i] = x)]]

\* C8: default seeding.  With use_defaults = true and k >= 1 defaults the
\* root is made and binds exactly the last k parameters, each to its own
\* default; the empty call on a chain that supplied only the required
\* parameters returns what f(required values) returns with its defaults.
C8_DefaultSeeding ==
    (pc # "wrap" /\ use_defaults /\ Len(fun.defaults) >= 1)
    => /\ pc # "failed"
       /\ hist[1].parent = 0
       /\ hist[1].created = ExpectedSeed
       /\ heap[nodes[1]] = ExpectedSeed
       /\ (/\ EmptyCalled
           /\ hist[last.node].posonly
           /\ Len(hist[last.node].posvals) = Cardinality(Required(fun)))
          => /\ Seen(last.out) = Seen(FlatCall(fun, hist[last.node].posvals))
             /\ last.out.kind = "result"
                => \A i \in 1 .. Len(fun.defaults) :
                      last.out.value[Len(fun.args) - Len(fun.defaults) + i]
                         = fun.defaults[i]

\* the same for the callables that declare no parameter before a / and are
\* no bound method whose receiver carries a default
C8_PassableByKeyword ==
    (pc # "wrap" /\ use_defaults /\ Len(fun.defaults) >= 1
     /\ fun.posonlyargcount = 0
     /\ ~(fun.ismethod /\ Len(fun.defaults) = Len(fun.args)))
    => /\ pc # "failed"
       /\ hist[1].created = ExpectedSeed
       /\ (/\ EmptyCalled
           /\ hist[last.node].posonly
           /\ Len(hist[last.node].posvals) = Cardinality(Required(fun)))
          => Seen(last.out) = Seen(FlatCall(fun, hist[last.node].posvals))

\* a callable with two defaults and a required parameter is forced after
\* the required parameter alone was supplied
C8_Witness ==
    /\ EmptyCalled /\ use_defaults
    /\ Len(fun.defaults) >= 2
    /\ Cardinality(Required(fun)) >= 1
    /\ hist[last.node].posonly
    /\ Len(hist[last.node].posvals) = Cardinality(Required(fun))
    /\ last.out.kind = "result"

\* --------------------------------------------------------------------- C9
\* C9: error atomicity.  After a call that failed, with whatever error and
\* however many of its values were resolved before, the curried fun it was
\* made on holds the bound arguments it held before the call, so does every
\* other curried fun, and the dict the call worked on is kept nowhere.
C9_ErrorAtomicity ==
    (Called /\ last.out.kind = "error")
    => /\ heap[nodes[last.node]] = last.before
       /\ last.before = hist[last.node].created
       /\ \A k \in DOMAIN nodes : heap[nodes[k]] = hist[k].created
       /\ Len(heap) = Len(nodes)
       /\ last.out.node = 0

\* a call failed after it had resolved some of its values
C9_Witness ==
    /\ Called
    /\ last.out.kind = "error"
    /\ ~last.out.invoked
    /\ DOMAIN last.out.current # DOMAIN last.before
    /\ hist[last.node].parent # 0

\* -------------------------------------------------------------------- C10
\* C10 as stated: an empty call invokes the callable once with the bound
\* arguments of the curried fun and returns its outcome without a new
\* curried fun; when a required parameter is unbound the outcome is the
\* callable's missing-argument error.
C10_AsStated ==
    EmptyCalled
    => /\ last.out.invoked
       /\ last.out.callargs = hist[last.node].created
       /\ last.out.kind \in {"result", "error"}
       /\ last.out.node = 0
       /\ last.out.err \notin {"ArityExceeded", "UnknownParameter", "OverrideNotAllowed"}
       /\ (Required(fun) \cup RequiredKwOnly(fun)) \ DOMAIN hist[last.node].created # {}
          => (/\ last.out.kind = "error"
              /\ last.out.err \in {"MissingArgument", "MissingKeywordOnly"})

\* C10 amended: an empty call invokes the callable once with the bound
\* arguments of the curried fun and returns its outcome without a new
\* curried fun and without an error of the wrapper.  The outcome is an
\* argument error of the callable or its result: when the bound arguments
\* hold a parameter declared before a /, its error for a positional-only
\* parameter passed by keyword; else, when the callable is a bound method
\* and the bound arguments hold its receiver parameter (bound by keyword or
\* seeded), its multiple-values error for the receiver; else, when the
\* callable is a bound method that declares no positional parameter, its
\* error for the receiver it cannot take; else, when a required parameter
\* is unbound, its missing-argument error; else its result.
C10_EmptyCallForcing ==
    EmptyCalled
    => LET d == hist[last.node].created
           refused == PosOnly(fun) \cap DOMAIN d # {}
           clash == ~refused /\ HasReceiver /\ fun.args[1] \in DOMAIN d
           noplace == fun.ismethod /\ Len(fun.args) = 0
           bindable == ~refused /\ ~clash /\ ~noplace
       IN  /\ last.out.invoked
           /\ last.out.callargs = d
           /\ last.out.kind \in {"result", "error"}
           /\ last.out.node = 0
           /\ last.out.err \notin {"ArityExceeded", "UnknownParameter", "OverrideNotAllowed"}
           /\ Len(nodes) = Len(heap)
           /\ refused => (/\ last.out.kind = "error"
                          /\ last.out.err = "PositionalOnlyAsKeyword"
                          /\ last.out.param \in PosOnly(fun) \cap DOMAIN d)
           /\ clash => (last.out.kind = "error" /\ last.out.err = "MultipleValues")
           /\ noplace => (last.out.kind = "error" /\ last.out.err = "TooManyPositional")
           /\ (bindable /\ Required(fun) \ DOMAIN d # {})
              => (last.out.kind = "error" /\ last.out.err = "MissingArgument"
                  /\ last.out.param \in Required(fun) \ DOMAIN d)
           /\ (bindable /\ Required(fun) \ DOMAIN d = {} /\ RequiredKwOnly(fun) # {})
              => (last.out.kind = "error" /\ last.out.err = "MissingKeywordOnly"
                  /\ last.out.param \in RequiredKwOnly(fun))
           /\ (bindable /\ Required(fun) \ DOMAIN d = {} /\ RequiredKwOnly(fun) = {})
              => last.out.kind = "result"

\* a partially bound curried fun is forced and the callable reports its
\* missing argument
C10_Witness ==
    /\ EmptyCalled
    /\ hist[last.node].parent # 0
    /\ hist[last.node].created # EmptyDict
    /\ last.out.kind = "error"
    /\ last.out.err = "MissingArgument"

\* -------------------------------------------------------------------- C11
\* C11 as stated: under every flag setting and whatever is bound, a call
\* with a keyword that is no declared parameter fails with UnknownParameter
\* naming that keyword, and no curried fun ever binds such a name.
C11_AsStated ==
    /\ Called =>
          \A i \in DOMAIN last.kwargs :
             last.kwargs[i][1] \notin Declared
             => /\ last.out.kind = "error"
                /\ last.out.err = "UnknownParameter"
                /\ last.out.param = last.kwargs[i][1]
    /\ \A k \in DOMAIN nodes : DOMAIN heap[nodes[k]] \subseteq Declared

\* the first keyword of the call that has just ended whose _set_argument
\* raises: it is unknown, or its parameter is bound when the keywords are
\* resolved and overriding is not allowed (0 if none)
FirstFailingKw ==
    LET bad == { i \in DOMAIN last.kwargs :
                   \/ last.kwargs[i][1] \notin Declared
                   \/ /\ ~allow_override
                      /\ last.kwargs[i][1] \in (DOMAIN last.before) \cup LastPosFilled }
    IN  IF bad = {} THEN 0 ELSE CHOOSE i \in bad : \A j \in bad : i <= j

\* C11 amended: under every flag setting and whatever is bound, a call with
\* a keyword that is no declared parameter always fails, without a new
\* curried fun and without invoking the callable, and no curried fun ever
\* binds such a name.  The error is the one of the first value that fails in
\* resolution order: ArityExceeded when the call has more positional values
\* than free slots; otherwise the error of the first keyword that is unknown
\* (UnknownParameter) or, with allow_override = false, already bound
\* (OverrideNotAllowed), naming that keyword.  So it is UnknownParameter
\* naming the keyword whenever no value resolved before it fails.
C11_UnknownKeyword ==
    /\ (/\ Called
        /\ \E i \in DOMAIN last.kwargs : last.kwargs[i][1] \notin Declared)
       => /\ last.out.kind = "error"
          /\ ~last.out.invoked
          /\ last.out.node = 0
          /\ IF Len(last.args) > Len(FreeSlots(last.before))
             THEN last.out.err = "ArityExceeded"
             ELSE /\ last.out.param = last.kwargs[FirstFailingKw][1]
                  /\ last.out.err =
                        (IF last.kwargs[FirstFailingKw][1] \in Declared
                         THEN "OverrideNotAllowed" ELSE "UnknownParameter")
    /\ \A k \in DOMAIN nodes : DOMAIN heap[nodes[k]] \subseteq Declared

\* a call on a derived curried fun whose positional value found a slot
\* carries a keyword that rebinds a bound parameter and then an unknown
\* keyword, and is refused for the earlier one
C11_Witness ==
    /\ Called /\ ~allow_override
    /\ hist[last.node].parent # 0
    /\ Len(last.args) >= 1
    /\ Len(last.kwargs) = 2
    /\ last.kwargs[2][1] = UnknownKw
    /\ last.kwargs[1][1] \in DOMAIN last.before
    /\ last.out.kind = "error"
    /\ last.out.err = "OverrideNotAllowed"
    /\ last.out.param = last.kwargs[1][1]

\* -------------------------------------------------------------------- C12
\* C12: receiver skipping.  For a bound method no positional value binds
\* the receiver (the first declared parameter): it is bound after a call
\* only if it was bound before or a keyword of the call names it; along a
\* positional-only chain the j-th value supplied binds the (j+1)-th declared
\* parameter, and forcing the chain returns what the method returns for
\* those values.
C12_ReceiverSkipping ==
    (HasReceiver /\ pc \notin {"wrap", "failed"})
    => /\ (NonEmptyCalled /\ Succeeded /\ fun.args[1] \in DOMAIN last.out.current)
          => fun.args[1] \in (DOMAIN last.before) \cup LastKwNames
       /\ \A k \in DOMAIN nodes :
             hist[k].posonly
             => /\ fun.args[1] \in DOMAIN hist[k].created
                   => fun.args[1] \in DOMAIN hist[1].created
                /\ \A j \in DOMAIN hist[k].posvals :
                      /\ j + 1 <= Len(fun.args)
                      /\ fun.args[j + 1] \in DOMAIN hist[k].created
                      /\ hist[k].created[fun.args[j + 1]] = hist[k].posvals[j]
       /\ (/\ EmptyCalled /\ hist[last.node].posonly
           /\ Len(hist[last.node].posvals) = Len(fun.args) - 1)
          => /\ Seen(last.out) = Seen(FlatCall(fun, hist[last.node].posvals))
             /\ last.out.kind = "result"
                => /\ last.out.value[1] = Receiver
                   /\ \A j \in DOMAIN hist[last.node].posvals :
                         last.out.value[j + 1] = hist[last.node].posvals[j]

\* the binding part for every bound method, and the forcing part for the
\* bound methods that declare no parameter before a / and whose receiver
\* was not seeded
C12_PassableByKeyword ==
    (HasReceiver /\ pc \notin {"wrap", "failed"})
    => /\ (NonEmptyCalled /\ Succeeded /\ fun.args[1] \in DOMAIN last.out.current)
          => fun.args[1] \in (DOMAIN last.before) \cup LastKwNames
       /\ \A k \in DOMAIN nodes :
             hist[k].posonly
             => /\ fun.args[1] \in DOMAIN hist[k].created
                   => fun.args[1] \in DOMAIN hist[1].created
                /\ \A j \in DOMAIN hist[k].posvals :
                      /\ j + 1 <= Len(fun.args)
                      /\ fun.args[j + 1] \in DOMAIN hist[k].created
                      /\ hist[k].created[fun.args[j + 1]] = hist[k].posvals[j]
       /\ (/\ EmptyCalled /\ hist[last.node].posonly
           /\ fun.posonlyargcount = 0
           /\ fun.args[1] \notin DOMAIN hist[1].created
           /\ Len(hist[last.node].posvals) = Len(fun.args) - 1)
          => Seen(last.out) = Seen(FlatCall(fun, hist[last.node].posvals))

\* a bound method with two parameters besides its receiver is forced after
\* two positional calls
C12_Witness ==
    /\ EmptyCalled /\ fun.ismethod /\ ~use_defaults
    /\ Len(fun.args) = 3
    /\ hist[last.node].posonly
    /\ Len(hist[last.node].posvals) = 2
    /\ hist[last.node].parent > 1
    /\ last.out.kind = "result"

\* -------------------------------------------------------------------- C13
\* the value the call that has just ended gives for the keyword name x
LastKwValue(x) ==
    last.kwargs[(CHOOSE i \in DOMAIN last.kwargs : last.kwargs[i][1] = x)][2]

\* C13: positional before keyword.  A keyword that names a parameter which
\* a positional value of the same call has filled is resolved as a
\* rebinding: once the positional values have all found a slot and no
\* earlier keyword has failed, it is refused with OverrideNotAllowed naming
\* it when allow_override = false, and its value replaces the positional
\* one when allow_override = true.  When a keyword fails, the positional
\* values are all stored already.  The slots the positional values fill are
\* those free before the call, whatever the keywords are.
C13_PositionalFirst ==
    Called
    => /\ \A i \in DOMAIN last.kwargs :
             last.kwargs[i][1] \in LastPosFilled
             => /\ (/\ ~allow_override
                    /\ Len(last.args) <= Len(FreeSlots(last.before))
                    /\ FirstFailingKw = i)
                   => /\ last.out.kind = "error"
                      /\ last.out.err = "OverrideNotAllowed"
                      /\ last.out.param = last.kwargs[i][1]
                /\ ~allow_override => ~Succeeded
                /\ (allow_override /\ Succeeded)
                   => last.out.current[last.kwargs[i][1]] = last.kwargs[i][2]
       /\ last.out.err \in {"OverrideNotAllowed", "UnknownParameter"}
          => /\ Len(last.args) <= Len(FreeSlots(last.before))
             /\ LastPosFilled \subseteq DOMAIN last.out.current
       /\ (NonEmptyCalled /\ Succeeded)
          => /\ Len(last.args) <= Len(FreeSlots(last.before))
             /\ \A j \in DOMAIN last.args :
                   LET slot == FreeSlots(last.before)[j] IN
                   /\ slot \in DOMAIN last.out.current
                   /\ last.out.current[slot] =
                        (IF slot \in LastKwNames THEN LastKwValue(slot)
                         ELSE last.args[j])

\* with overriding allowed, a keyword has replaced the value a positional
\* value of the same call gave its parameter
C13_Witness ==
    /\ NonEmptyCalled /\ allow_override /\ Succeeded
    /\ \E i \in DOMAIN last.kwargs :
          /\ last.kwargs[i][1] \in LastPosFilled
          /\ last.kwargs[i][1] \notin DOMAIN last.before
          /\ last.out.current[last.kwargs[i][1]] = last.kwargs[i][2]
          /\ last.kwargs[i][2] \notin { last.args[j] : j \in DOMAIN last.args }

\* -------------------------------------------------------------------- C14
\* the index of the j-th declared parameter, in declaration order and after
\* the receiver of a bound method, that the dict d lacks (0 if none)
NthFreeIndex(d, j) ==
    LET off == IF fun.ismethod THEN 1 ELSE 0
        lacks(m) == fun.args[m] \notin DOMAIN d
        hit == { m \in (off + 1) .. Len(fun.args) :
                   /\ lacks(m)
                   /\ Cardinality({ l \in (off + 1) .. (m - 1) : lacks(l) }) = j - 1 }
    IN  IF hit = {} THEN 0 ELSE CHOOSE m \in hit : TRUE

\* C14: left-most free slot.  In a call that succeeds the j-th positional
\* value is bound to the j-th parameter, in declaration order, that was
\* unbound before the call (the parameters bound earlier by keyword, by
\* positional values or by default seeding are skipped); that parameter
\* holds the value unless a keyword of the same call names it.
C14_LeftMostFreeSlot ==
    (NonEmptyCalled /\ Succeeded)
    => \A j \in DOMAIN last.args :
          LET m == NthFreeIndex(last.before, j) IN
          /\ m # 0
          /\ fun.args[m] \in DOMAIN last.out.current
          /\ fun.args[m] \notin LastKwNames
             => last.out.current[fun.args[m]] = last.args[j]
          /\ \A l \in 1 .. (m - 1) :
                (fun.args[l] \in DOMAIN last.before /\ fun.args[l] \notin LastKwNames)
                => last.out.current[fun.args[l]] = last.before[fun.args[l]]

\* the first and the last of three parameters are bound, not by positional
\* values, and a positional value has filled the second
C14_Witness ==
    /\ NonEmptyCalled /\ Succeeded /\ ~fun.ismethod
    /\ Len(fun.args) = 3
    /\ DOMAIN last.before = {fun.args[1], fun.args[3]}
    /\ hist[last.node].npos = 0
    /\ Len(last.args) = 1
    /\ last.out.current[fun.args[2]] = last.args[1]
    /\ last.out.current[fun.args[1]] = last.before[fun.args[1]]

\* -------------------------------------------------------------------- C15
\* C15: default seeding without defaults.  Specialising with use_defaults =
\* true a callable none of whose parameters carries a default succeeds and
\* gives a root whose bound arguments are empty, as with use_defaults =
\* false.
C15_SeedingWithoutDefaults ==
    (pc # "wrap" /\ use_defaults /\ Len(fun.defaults) = 0)
    => /\ pc # "failed"
       /\ last.out.err # "NoneNotReversible"
       /\ Len(nodes) >= 1
       /\ hist[1].created = EmptyDict
       /\ heap[nodes[1]] = EmptyDict

\* -------------------------------------------------------------------- C16
\* C16: non-lazy completion of a bound method.  With lazy = false, the call
\* on a curried bound method after which every parameter other than the
\* receiver is bound invokes the method and returns its result, not a new
\* curried fun.
C16_NonLazyBoundMethod ==
    (/\ NonEmptyCalled /\ ~lazy /\ fun.ismethod
     /\ Succeeded
     /\ DOMAIN last.out.current = { fun.args[i] : i \in 2 .. Len(fun.args) })
    => /\ last.out.kind = "result"
       /\ last.out.invoked

\* -------------------------------------------------------------------- C17
\* C17: key invariant.  Under every flag setting every curried fun binds
\* declared parameters only, when it is made and ever after, so it never
\* binds more parameters than the callable declares; the same holds of the
\* arguments the callable is invoked with.
C17_KeyInvariant ==
    /\ \A k \in DOMAIN nodes :
          /\ DOMAIN heap[nodes[k]] \subseteq Declared
          /\ DOMAIN hist[k].created \subseteq Declared
          /\ DictLen(heap[nodes[k]]) <= Len(fun.args)
    /\ Called =>
          /\ DOMAIN last.out.callargs \subseteq Declared
          /\ DictLen(last.out.callargs) <= Len(fun.args)
          /\ Succeeded => DOMAIN last.out.current \subseteq Declared

\* a curried fun made by calls with keywords binds every declared parameter
\* after a call with an undeclared keyword was refused on it
C17_Witness ==
    /\ Called
    /\ last.out.err = "UnknownParameter"
    /\ hist[last.node].parent # 0
    /\ ~hist[last.node].posonly
    /\ DOMAIN heap[nodes[last.node]] = Declared
    /\ Len(fun.args) >= 2

\* -------------------------------------------------------------------- C18
\* the number of calls that made the curried fun k from the root
RECURSIVE Depth(_)
Depth(k) == IF hist[k].parent = 0 THEN 0 ELSE 1 + Depth(hist[k].parent)

\* C18 as stated: with allow_override = false every curried fun binds
\* strictly more parameters than the one it was made from, so no chain from
\* the root has more than n = len(argspec.args) successful non-empty calls;
\* where a chain has n of them, lazy is true and every further non-empty
\* call fails, for with lazy = false the callable has been invoked by then.
C18_AsStated ==
    ~allow_override
    => /\ \A k \in DOMAIN nodes :
             /\ hist[k].parent # 0
                => DictLen(hist[k].created) > DictLen(hist[hist[k].parent].created)
             /\ Depth(k) <= Len(fun.args)
       /\ (NonEmptyCalled /\ Depth(last.node) = Len(fun.args))
          => /\ lazy
             /\ last.out.kind = "error"
             /\ ~last.out.invoked

\* C18 amended: with allow_override = false every curried fun binds
\* strictly more parameters than the one it was made from, so no chain from
\* the root has more than n = len(argspec.args) successful non-empty calls;
\* on a curried fun n calls away from the root every non-empty call fails
\* and does not invoke the callable; with lazy = false such a curried fun
\* is the root of a callable with n = 0 only, because no other curried fun
\* binds all n parameters (the call that binds the last one invokes the
\* callable instead).
C18_BoundedChains ==
    ~allow_override
    => /\ \A k \in DOMAIN nodes :
             /\ hist[k].parent # 0
                => /\ DictLen(hist[k].created) > DictLen(hist[hist[k].parent].created)
                   /\ ~lazy => DictLen(hist[k].created) < Len(fun.args)
             /\ Depth(k) <= DictLen(hist[k].created)
             /\ Depth(k) <= Len(fun.args)
       /\ (NonEmptyCalled /\ last.out.kind = "node")
          => DictLen(last.out.current) > DictLen(last.before)
       /\ (NonEmptyCalled /\ Depth(last.node) = Len(fun.args))
          => /\ lazy \/ (Len(fun.args) = 0 /\ hist[last.node].parent = 0)
             /\ last.out.kind = "error"
             /\ ~last.out.invoked
       /\ (NonEmptyCalled /\ ~lazy /\ Succeeded
           /\ Depth(last.node) + 1 = Len(fun.args))
          => last.out.kind = "result"

\* a non-empty call is refused on a curried fun that two successful calls
\* made from the root of a callable with two parameters
C18_Witness ==
    /\ NonEmptyCalled /\ ~allow_override
    /\ Len(fun.args) = 2
    /\ Depth(last.node) = 2
    /\ last.out.kind = "error"

\* with allow_override = true a chain is longer than the parameter count
C18_LongerChainWithOverride ==
    /\ allow_override
    /\ \E k \in DOMAIN nodes : Depth(k) > Len(fun.args)

\* -------------------------------------------------------------------- C19
\* the curried funs the curried fun k was made from, up to the root
RECURSIVE Ancestors(_)
Ancestors(k) ==
    IF hist[k].parent = 0 THEN {}
    ELSE {hist[k].parent} \cup Ancestors(hist[k].parent)

\* C19: monotone bindings.  A curried fun binds every parameter the curried
\* funs it was made from bind, and so do the arguments the callable is
\* invoked with; with allow_override = false the values are the same too,
\* so a value once bound, a seeded default included, is the value the
\* callable receives.
C19_MonotoneBindings ==
    /\ \A k \in DOMAIN nodes : \A p \in Ancestors(k) :
          /\ DOMAIN hist[p].created \subseteq DOMAIN hist[k].created
          /\ ~allow_override =>
                \A q \in DOMAIN hist[p].created :
                   hist[k].created[q] = hist[p].created[q]
    /\ (Called /\ last.out.invoked) =>
          \A p \in {last.node} \cup Ancestors(last.node) :
             /\ DOMAIN hist[p].created \subseteq DOMAIN last.out.callargs
             /\ ~allow_override =>
                   \A q \in DOMAIN hist[p].created :
                      /\ last.out.callargs[q] = hist[p].created[q]
                      /\ (last.out.kind = "result" /\ ~fun.ismethod) =>
                            \E i \in DOMAIN fun.args :
                               fun.args[i] = q /\ last.out.value[i] = hist[p].created[q]

\* the callable returns a seeded default and a value bound two calls
\* earlier, overriding not allowed
C19_Witness ==
    /\ Called /\ ~allow_override /\ use_defaults
    /\ last.out.kind = "result"
    /\ Depth(last.node) = 2
    /\ hist[1].created # EmptyDict
    /\ DictLen(hist[last.node].created) > DictLen(hist[hist[last.node].parent].created)

====
